---- MODULE Spec2Model ----
(***************************************************************************)
(* Model of the Etherscan MCP server: the rate-limited client              *)
(* (EtherscanService._make_request), the balance conversion (get_balance), *)
(* the whale metrics (WhaleDetector), the compare_whales tool and the      *)
(* discovery operations discover_whale_movements, discover_top_whales and  *)
(* track_exchange_whales.                                                  *)
(*                                                                         *)
(* Units.  Event-loop time is counted in ticks, TicksPerSecond to the      *)
(* second.  An ETH amount is a record [eth, micro]: whole ETH and          *)
(* millionths, the six decimals get_balance prints.                        *)
(***************************************************************************)
EXTENDS Integers, Sequences, FiniteSets, TLC

VARIABLES
    \* ---- EtherscanService (one shared client)
    now,                \* asyncio event loop clock
    last_request_time,  \* self._last_request_time
    pc,                 \* position of the flow inside _make_request
    wake_at,            \* deadline of the pending asyncio.sleep
    result,             \* outcome of the last finished _make_request call
    \* ---- history of the client, read by the properties only
    sent_at,            \* when the current/last HTTP GET was issued
    done_at,            \* when the last HTTP exchange finished, any outcome
    ok_at,              \* when the last 2xx exchange with a JSON body finished
    \* ---- several tool invocations inside _make_request at once
    flows,              \* per caller: its position, sleep deadline, last send
    \* ---- WhaleDetector's pure functions applied to drawn inputs
    sc,
    \* ---- the analyze_whale and compare_whales tools
    chain,              \* what the upstream holds for each account
    an,                 \* the running WhaleDetector.analyze_whale call
    cmp,                \* the running compare_whales call
    dv,                 \* the running discovery call: discover_whale_movements,
                        \* discover_top_whales or track_exchange_whales
    requests,           \* upstream requests issued by the current tool call
    tool_result         \* what the last tool call returned

clientVars ==
    <<now, last_request_time, pc, wake_at, result, sent_at, done_at, ok_at, flows>>

toolVars == <<chain, an, cmp, dv, requests, tool_result>>

vars == <<clientVars, sc, toolVars>>

None == [kind |-> "none"]
DvIdle == [pc |-> "idle", op |-> "none"]
Never == 0 - 1

(***************************************************************************)
(* Bounds of the model.                                                    *)
(***************************************************************************)
TicksPerSecond == 10
MaxTime == 9
MaxLatency == 2
MaxOversleep == 1

(***************************************************************************)
(* EtherscanService._make_request                                          *)
(***************************************************************************)
rate_limit == 5

min_interval == TicksPerSecond \div rate_limit

\* What the HTTP layer can hand back to `await self._client.get(...)`,
\* raise_for_status() and response.json().
Responses ==
    { [http |-> "connect_error"],              \* get() raises httpx.HTTPError
      [http |-> "bad_status"],                 \* raise_for_status() raises
      [http |-> "not_json"],                   \* 2xx, json() raises ValueError
      [http |-> "json_not_object"],            \* 2xx, JSON but no .get
      [http |-> "json", status |-> "0", message |-> "NOTOK"],
      [http |-> "json", status |-> "1", message |-> "OK"],
      [http |-> "json", status |-> "absent", message |-> "absent"] }

\* Lines 26-31: how long the call sleeps before it sends.
SleepForNoWait(current_time, last) == 0
SleepFor(current_time, last) ==
    LET time_since_last == current_time - last
    IN  IF time_since_last < min_interval
        THEN min_interval - time_since_last
        ELSE 0

\* Line 40 is reached exactly when get(), raise_for_status() and json()
\* all returned.
StampsClock(resp) == resp.http \in {"json", "json_not_object"}

\* Lines 35-47: the outcome of the call for a given HTTP response.
RequestOutcome(resp) ==
    CASE resp.http \in {"connect_error", "bad_status"} ->
            [kind |-> "HTTP error", cause |-> resp.http]
      [] resp.http = "not_json" ->
            [kind |-> "ValueError", cause |-> resp.http]
      [] resp.http = "json_not_object" ->
            [kind |-> "AttributeError", cause |-> resp.http]
      [] resp.http = "json" /\ resp.status = "0" ->
            [kind |-> "Etherscan API error", cause |-> resp.message]
      [] OTHER ->
            [kind |-> "data", cause |-> resp.status]

\* Time passing between two calls of the flow.
Tick ==
    /\ pc = "idle"
    /\ now < MaxTime
    /\ now' = now + 1
    /\ UNCHANGED <<last_request_time, pc, wake_at, result, sent_at, done_at, ok_at>>
    /\ UNCHANGED <<flows, sc, toolVars>>

\* Lines 26-33: entry of _make_request up to its first await.
Enter ==
    /\ pc = "idle"
    /\ LET d == SleepFor(now, last_request_time)
       IN  IF d > 0
           THEN /\ pc' = "sleeping"
                /\ wake_at' = now + d
                /\ UNCHANGED sent_at
           ELSE /\ pc' = "sending"
                /\ sent_at' = now
                /\ UNCHANGED wake_at
    /\ result' = None
    /\ UNCHANGED <<now, last_request_time, done_at, ok_at>>
    /\ UNCHANGED <<flows, sc, toolVars>>

\* Line 31 returns: asyncio.sleep(d) suspends for at least d.
Wake ==
    /\ pc = "sleeping"
    /\ \E late \in 0..MaxOversleep :
          /\ wake_at + late <= MaxTime
          /\ now' = wake_at + late
          /\ sent_at' = wake_at + late
    /\ pc' = "sending"
    /\ UNCHANGED <<last_request_time, wake_at, result, done_at, ok_at>>
    /\ UNCHANGED <<flows, sc, toolVars>>

\* Lines 35-47: the HTTP exchange finishes.
Respond ==
    /\ pc = "sending"
    /\ \E lat \in 0..MaxLatency, resp \in Responses :
          /\ now + lat <= MaxTime
          /\ now' = now + lat
          /\ done_at' = now + lat
          /\ ok_at' = IF resp.http \in {"json", "json_not_object"}
                      THEN now + lat ELSE ok_at
          /\ last_request_time' =
                IF StampsClock(resp) THEN now + lat ELSE last_request_time
          /\ result' = RequestOutcome(resp) @@ [http |-> resp.http, sent |-> TRUE]
    /\ pc' = "idle"
    /\ UNCHANGED <<wake_at, sent_at>>
    /\ UNCHANGED <<flows, sc, toolVars>>

ClientNext == Tick \/ Enter \/ Wake \/ Respond

(***************************************************************************)
(* Several tool invocations in _make_request on the one shared client.     *)
(* Each await (asyncio.sleep, self._client.get) hands the event loop to    *)
(* the other callers; the code between two awaits runs undisturbed.        *)
(***************************************************************************)
\* The tool invocations that share the module-level `etherscan` client.
Callers == {"first", "second"}

FlowIdle == [pc |-> "idle", wake_at |-> 0, sent_at |-> Never, result |-> "none"]
NoFlows == [c \in Callers |-> FlowIdle]

\* The event loop clock advances; a pending sleep oversleeps by at most
\* MaxOversleep and a pending exchange takes at most MaxLatency.
FlowTick ==
    /\ now < MaxTime
    /\ \A c \in Callers :
          /\ flows[c].pc = "sleeping" => now < flows[c].wake_at + MaxOversleep
          /\ flows[c].pc = "sending" => now < flows[c].sent_at + MaxLatency
    /\ now' = now + 1
    /\ UNCHANGED <<last_request_time, pc, wake_at, result, sent_at, done_at, ok_at>>
    /\ UNCHANGED <<flows, sc, toolVars>>

\* Lines 26-35 for caller c: up to the first await, asyncio.sleep when the
\* interval has not elapsed and self._client.get otherwise.
FlowEnter(c) ==
    /\ flows[c].pc = "idle"
    /\ LET d == SleepFor(now, last_request_time)
       IN  flows' = [flows EXCEPT ![c] =
                IF d > 0
                THEN [@ EXCEPT !.pc = "sleeping", !.wake_at = now + d,
                               !.result = "none"]
                ELSE [@ EXCEPT !.pc = "sending", !.sent_at = now,
                               !.result = "none"]]
    /\ UNCHANGED <<now, last_request_time, pc, wake_at, result, sent_at, done_at, ok_at>>
    /\ UNCHANGED <<sc, toolVars>>

\* Lines 31-35 for caller c: the sleep is over and the GET goes out, with no
\* second look at the timestamp.
FlowWake(c) ==
    /\ flows[c].pc = "sleeping"
    /\ now >= flows[c].wake_at
    /\ flows' = [flows EXCEPT ![c] =
                    [@ EXCEPT !.pc = "sending", !.wake_at = 0, !.sent_at = now]]
    /\ UNCHANGED <<now, last_request_time, pc, wake_at, result, sent_at, done_at, ok_at>>
    /\ UNCHANGED <<sc, toolVars>>

\* Lines 35-47 for caller c: the exchange finishes.
FlowRespond(c) ==
    /\ flows[c].pc = "sending"
    /\ \E resp \in Responses :
          /\ last_request_time' =
                IF StampsClock(resp) THEN now ELSE last_request_time
          /\ flows' = [flows EXCEPT ![c] =
                [@ EXCEPT !.pc = "idle", !.result = RequestOutcome(resp).kind]]
    /\ UNCHANGED <<now, pc, wake_at, result, sent_at, done_at, ok_at>>
    /\ UNCHANGED <<sc, toolVars>>

ConcurrentNext ==
    \/ FlowTick
    \/ \E c \in Callers : FlowEnter(c)
    \/ \E c \in Callers : FlowWake(c)
    \/ \E c \in Callers : FlowRespond(c)

(***************************************************************************)
(* Amounts, addresses and time of the whale metrics.                       *)
(***************************************************************************)
UnitsPerDay == 2

Min(a, b) == IF a <= b THEN a ELSE b
Max(a, b) == IF a >= b THEN a ELSE b

Take(s, n) == SubSeq(s, 1, Min(n, Len(s)))

Eth(e, m) == [eth |-> e, micro |-> m]
Zero == Eth(0, 0)

\* a >= n and a > n for an amount a and a whole number of ETH n
AmountGE(a, n) == a.eth >= n
AmountGT(a, n) == a.eth > n \/ (a.eth = n /\ a.micro > 0)
\* a <= b, a < b between amounts
AmountLE(a, b) == a.eth < b.eth \/ (a.eth = b.eth /\ a.micro <= b.micro)
AmountLT(a, b) == a.eth < b.eth \/ (a.eth = b.eth /\ a.micro < b.micro)

\* An address string: the account it names and how it is cased.
Addr(k, c) == [key |-> k, casing |-> c]
Lower(a) == Addr(a.key, "lower")

\* (now - tx_time).days: whole days elapsed, rounded down.
AgeDays(clock, timeStamp) == (clock - timeStamp) \div UnitsPerDay

(***************************************************************************)
(* WhaleDetector: registries and pure functions                            *)
(***************************************************************************)
KNOWN_WHALES ==
    { Addr("ethereum_foundation", "lower"), Addr("weth", "lower"),
      Addr("gemini", "lower"), Addr("binance", "lower") }

EXCHANGE_ADDRESSES ==
    { Addr("binance", "lower"), Addr("gemini", "lower"),
      Addr("okex", "lower"), Addr("ftx", "lower") }

classify_whale_exclusive(eth_balance) ==
    IF AmountGT(eth_balance, 10000) THEN "mega_whale"
    ELSE IF AmountGT(eth_balance, 1000) THEN "large_whale"
    ELSE IF AmountGT(eth_balance, 100) THEN "medium_whale"
    ELSE IF AmountGT(eth_balance, 10) THEN "small_whale"
    ELSE "shrimp"

classify_whale(eth_balance) ==
    IF AmountGE(eth_balance, 10000) THEN "mega_whale"
    ELSE IF AmountGE(eth_balance, 1000) THEN "large_whale"
    ELSE IF AmountGE(eth_balance, 100) THEN "medium_whale"
    ELSE IF AmountGE(eth_balance, 10) THEN "small_whale"
    ELSE "shrimp"

\* The loop of _calculate_activity_score over the list it is given.
RECURSIVE RecentCount(_, _)
RecentCount(txs, clock) ==
    IF txs = <<>> THEN 0
    ELSE (IF AgeDays(clock, Head(txs).timeStamp) <= 30 THEN 1 ELSE 0)
         + RecentCount(Tail(txs), clock)

calculate_activity_score_unsliced(transactions, clock) ==
    IF transactions = <<>> THEN 0
    ELSE (RecentCount(transactions, clock) * 100) \div 20

calculate_activity_score(transactions, clock) ==
    IF transactions = <<>> THEN 0
    ELSE Min(100, (RecentCount(Take(transactions, 20), clock) * 100) \div 20)

RECURSIVE CountOver(_, _)
\* how many transactions have a value above n ETH
CountOver(txs, n) ==
    IF txs = <<>> THEN 0
    ELSE (IF AmountGT(Head(txs).value, n) THEN 1 ELSE 0) + CountOver(Tail(txs), n)

\* sum(risk_factors)
RiskTotal(address, transactions, balance, clock) ==
    (IF AmountGT(balance, 1000) THEN 30 ELSE 0)
    + (IF Lower(address) \in {Lower(k) : k \in KNOWN_WHALES} THEN 0 - 20 ELSE 0)
    + (IF transactions # <<>>
          /\ 2 * CountOver(transactions, 100) > Len(transactions)
       THEN 25 ELSE 0)
    + (IF transactions # <<>>
          /\ AgeDays(clock, transactions[Len(transactions)].timeStamp) < 30
       THEN 40 ELSE 0)

calculate_risk_score_unclamped(address, transactions, balance, clock) ==
    RiskTotal(address, transactions, balance, clock)

calculate_risk_score(address, transactions, balance, clock) ==
    Max(0, Min(100, RiskTotal(address, transactions, balance, clock)))

(***************************************************************************)
(* The pure functions on drawn inputs: classify_whale,                     *)
(* _calculate_activity_score and _calculate_risk_score, applied in the     *)
(* order analyze_whale applies them.                                       *)
(***************************************************************************)
\* datetime.now() at analysis time
Clock == 40 * UnitsPerDay

Tx(v, ageUnits) == [value |-> v, timeStamp |-> Clock - ageUnits]

Rep(n, x) == [i \in 1..n |-> x]

BalanceSamples ==
    { Eth(0, 0), Eth(9, 999999), Eth(10, 0), Eth(99, 999999), Eth(100, 0),
      Eth(999, 999999), Eth(1000, 0), Eth(1000, 1), Eth(9999, 999999),
      Eth(10000, 0), Eth(12345, 678901) }

AddressSamples == { Addr("ethereum_foundation", "mixed"), Addr("stranger", "lower") }

\* ages, youngest first: this instant, one unit short of 30 days, exactly
\* 30 days, 30 days and a part of a day, 31 days
AgeSamples ==
    <<0, 30 * UnitsPerDay - 1, 30 * UnitsPerDay, 30 * UnitsPerDay + 1,
      31 * UnitsPerDay>>

ValueSamples == { Eth(100, 0), Eth(100, 1) }

\* Pages as the upstream returns them for sort=desc: newest first.
TxSamples ==
    { Rep(n1, Tx(v1, AgeSamples[a1])) \o Rep(n2, Tx(v2, AgeSamples[a2])) :
        <<n1, n2, a1, a2, v1, v2>> \in
            { t \in {0, 1, 20, 21} \X {0, 1, 2} \X (1..5) \X (1..5)
                    \X ValueSamples \X ValueSamples : t[3] <= t[4] } }

\* The pages drawn for a second analysis: all entries alike.
TxFollowUps == { t \in TxSamples : \A i \in 1..Len(t) : t[i] = t[1] }

\* Of the first 20 entries, those at most 30 whole days old.
WindowRecent(txs) ==
    Cardinality({ i \in 1..Min(20, Len(txs)) : AgeDays(Clock, txs[i].timeStamp) <= 30 })

ClassifyStep ==
    /\ sc.pc = "input"
    /\ sc' = [sc EXCEPT !.pc = "classified",
                        !.whale_class = classify_whale(sc.balance)]
    /\ UNCHANGED <<clientVars, toolVars>>

ActivityStep ==
    /\ sc.pc = "classified"
    /\ sc' = [sc EXCEPT !.pc = "active",
                        !.activity_score =
                            calculate_activity_score(sc.transactions, Clock)]
    /\ UNCHANGED <<clientVars, toolVars>>

RiskStep ==
    /\ sc.pc = "active"
    /\ sc' = [sc EXCEPT !.pc = "scored",
                        !.risk_score =
                            calculate_risk_score(sc.address, sc.transactions,
                                                 sc.balance, Clock)]
    /\ UNCHANGED <<clientVars, toolVars>>

\* The same address is analysed again on another page of transactions; the
\* earlier page's count and score are kept for comparison.
NextTransactions ==
    /\ sc.pc = "scored"
    /\ \E t \in TxFollowUps :
          sc' = [sc EXCEPT !.pc = "classified",
                           !.transactions = t,
                           !.activity_score = Never,
                           !.risk_score = Never,
                           !.prev = [kind |-> "page",
                                     recent |-> WindowRecent(sc.transactions),
                                     score |-> sc.activity_score]]
    /\ UNCHANGED <<clientVars, toolVars>>

ScoreNext == ClassifyStep \/ ActivityStep \/ RiskStep \/ NextTransactions

(***************************************************************************)
(* EtherscanService.get_balance: wei to the six-decimal ETH string.        *)
(* A wei balance is [eth, micro, rest]: whole ETH, whole millionths, and   *)
(* where the remaining wei stand against half a millionth: "exact" (none   *)
(* remain), "below", "near_below" (short of the half by less than the      *)
(* rounding error of the double quotient), "half", "near_above", "above".  *)
(***************************************************************************)
Wei(e, m, r) == [eth |-> e, micro |-> m, rest |-> r]

RoundUp(w) ==
    IF w.micro = 999999 THEN Eth(w.eth + 1, 0) ELSE Eth(w.eth, w.micro + 1)

FormatEthTruncated(w) == { Eth(w.eth, w.micro) }

\* f"{wei / 10**18:.6f}" read back by float(): the six-decimal value
\* nearest to the double wei / 10**18. On a tie, and as near to a tie as
\* the double is to the true quotient, the double decides: 9999999500000000001
\* wei gives "9.999999".
FormatEth(w) ==
    CASE w.rest \in {"exact", "below"} -> { Eth(w.eth, w.micro) }
      [] w.rest = "above" -> { RoundUp(w) }
      [] OTHER -> { Eth(w.eth, w.micro), RoundUp(w) }

\* The balance string taken back to wei: float(s) * 10**18.
ReadBack(eth_balance) == Wei(eth_balance.eth, eth_balance.micro, "exact")

RestClasses == { "exact", "below", "near_below", "half", "near_above", "above" }

\* The double quotient is off by a whole wei only from about 0.005 ETH on.
WeiSamples ==
    { Wei(e, m, r) : <<e, m, r>> \in
        { t \in {0, 9, 10, 99, 9999, 12345} \X {0, 499999, 999999} \X RestClasses :
            t[3] \in {"near_below", "near_above"} => t[1] >= 9 } }

FormatStep ==
    /\ sc.pc = "wei"
    /\ \E b \in FormatEth(sc.wei) :
          sc' = [sc EXCEPT !.pc = "formatted", !.eth_balance = b]
    /\ UNCHANGED <<clientVars, toolVars>>

ReadBackStep ==
    /\ sc.pc = "formatted"
    /\ sc' = [sc EXCEPT !.pc = "back", !.back = ReadBack(sc.eth_balance)]
    /\ UNCHANGED <<clientVars, toolVars>>

\* whale_detector.py lines 94-95 and 293-294: the class is taken from the
\* float of the formatted string.
ClassifyBalanceStep ==
    /\ sc.pc = "back"
    /\ sc' = [sc EXCEPT !.pc = "classified",
                        !.whale_class = classify_whale(sc.eth_balance)]
    /\ UNCHANGED <<clientVars, toolVars>>

BalanceNext == FormatStep \/ ReadBackStep \/ ClassifyBalanceStep

(***************************************************************************)
(* WhaleDetector.analyze_whale                                             *)
(***************************************************************************)
NoTime == None
Time(t) == [kind |-> "time", at |-> t]

\* int(tx['value']) raises on a record whose value is not a number
BadValue == Eth(0 - 1, 0)
WellFormed(txs) == \A i \in 1..Len(txs) : txs[i].value # BadValue

RECURSIVE SumEth(_)
SumEth(txs) == IF txs = <<>> THEN 0 ELSE Head(txs).value.eth + SumEth(Tail(txs))

RECURSIVE SumMicro(_)
SumMicro(txs) == IF txs = <<>> THEN 0 ELSE Head(txs).value.micro + SumMicro(Tail(txs))

\* sum(transaction_values) / len(transaction_values), to the millionth
Average(txs) ==
    LET n == Len(txs)
        m == ((SumEth(txs) % n) * 1000000 + SumMicro(txs)) \div n
    IN  Eth(SumEth(txs) \div n + m \div 1000000, m % 1000000)

RECURSIVE Maximum(_)
Maximum(txs) ==
    IF Len(txs) = 1 THEN Head(txs).value
    ELSE LET m == Maximum(Tail(txs))
         IN  IF AmountLE(m, Head(txs).value) THEN Head(txs).value ELSE m

\* transfer.get('contractAddress', '')
Blank == Addr("", "lower")
Transfer(c) == [present |-> TRUE, contractAddress |-> c]
TransferWithoutContract == [present |-> FALSE, contractAddress |-> Blank]
ContractOf(transfer) ==
    IF transfer.present THEN transfer.contractAddress ELSE Blank

TokenDiversity(token_transfers) ==
    Cardinality({ ContractOf(token_transfers[i]) : i \in 1..Len(token_transfers) })

\* Line 100: `if not transactions`
NoTransactionsNever(transactions) == FALSE
NoTransactions(transactions) == transactions = <<>>

\* Lines 101-114: the record returned for an address without transactions.
EmptyMetrics(address, eth_balance, whale_class) ==
    [kind |-> "metrics", address |-> address, eth_balance |-> eth_balance,
     whale_class |-> whale_class, total_transactions |-> 0,
     large_transactions |-> 0, avg_transaction_value |-> Zero,
     max_transaction_value |-> Zero, first_seen |-> NoTime,
     last_activity |-> NoTime, activity_score |-> 0, risk_score |-> 0,
     token_diversity |-> 0]

\* Lines 116-138 and 147-160: the record built from a non-empty page.
FullMetrics(address, eth_balance, whale_class, transactions, token_transfers) ==
    [kind |-> "metrics", address |-> address, eth_balance |-> eth_balance,
     whale_class |-> whale_class,
     total_transactions |-> Len(transactions),
     large_transactions |-> CountOver(transactions, 50),
     avg_transaction_value |->
        IF transactions # <<>> THEN Average(transactions) ELSE Zero,
     max_transaction_value |->
        IF transactions # <<>> THEN Maximum(transactions) ELSE Zero,
     first_seen |->
        IF transactions # <<>>
        THEN Time(transactions[Len(transactions)].timeStamp) ELSE NoTime,
     last_activity |->
        IF transactions # <<>> THEN Time(transactions[1].timeStamp) ELSE NoTime,
     activity_score |-> calculate_activity_score(transactions, Clock),
     risk_score |-> calculate_risk_score(address, transactions, eth_balance, Clock),
     token_diversity |-> TokenDiversity(token_transfers)]

\* Lines 162-163: raise Exception(f"Error analyzing whale: {str(e)}")
AnalysisErrorBare(cause) == cause
AnalysisError(cause) == [kind |-> "Error analyzing whale", cause |-> cause]

AnIdle == [pc |-> "idle"]

\* Line 93: the call starts by requesting the balance.
BeginAnalysis(address, caller) ==
    [pc |-> "balance", caller |-> caller, address |-> address,
     eth_balance |-> Zero, whale_class |-> "unset", transactions |-> <<>>,
     got |-> 0, failed |-> None, outcome |-> None]

Finish(outcome) == [an EXCEPT !.pc = "done", !.outcome = outcome]

Fail(cause) ==
    [an EXCEPT !.pc = "done", !.failed = cause, !.outcome = AnalysisError(cause)]

\* Lines 93-98: the balance request returns.
FetchBalance ==
    /\ an.pc = "balance"
    /\ \E resp \in Responses :
          LET out == RequestOutcome(resp)
          IN  IF out.kind = "data"
              THEN /\ \E b \in FormatEth(chain[an.address.key].wei) :
                         an' = [an EXCEPT !.pc = "transactions",
                                          !.eth_balance = b,
                                          !.whale_class = classify_whale(b),
                                          !.got = 1]
                   /\ requests' = requests + 1
              ELSE /\ an' = Fail(out)
                   /\ UNCHANGED requests
    /\ UNCHANGED <<clientVars, sc, dv, chain, cmp, tool_result>>

\* Lines 98-141: the transaction page returns.
FetchTransactions ==
    /\ an.pc = "transactions"
    /\ \E resp \in Responses :
          LET out == RequestOutcome(resp)
              txs == chain[an.address.key].txs
          IN  IF out.kind # "data"
              THEN /\ an' = Fail(out)
                   /\ UNCHANGED requests
              ELSE IF NoTransactions(txs)
              THEN /\ an' = [Finish(EmptyMetrics(an.address, an.eth_balance,
                                                 an.whale_class))
                                EXCEPT !.transactions = txs, !.got = 2]
                   /\ UNCHANGED requests
              ELSE IF ~WellFormed(txs)
              THEN /\ an' = [Finish(AnalysisError([kind |-> "ValueError",
                                                   cause |-> "value"]))
                                EXCEPT !.transactions = txs, !.got = 2]
                   /\ UNCHANGED requests
              ELSE /\ an' = [an EXCEPT !.pc = "token_transfers",
                                       !.transactions = txs, !.got = 2]
                   /\ requests' = requests + 1
    /\ UNCHANGED <<clientVars, sc, dv, chain, cmp, tool_result>>

\* Lines 141-160: the token transfer page returns.
FetchTokenTransfers ==
    /\ an.pc = "token_transfers"
    /\ \E resp \in Responses :
          LET out == RequestOutcome(resp)
          IN  IF out.kind # "data"
              THEN an' = Fail(out)
              ELSE an' = [Finish(FullMetrics(an.address, an.eth_balance,
                                             an.whale_class, an.transactions,
                                             chain[an.address.key].tokens))
                             EXCEPT !.got = 3]
    /\ UNCHANGED <<clientVars, sc, dv, chain, cmp, requests, tool_result>>

(***************************************************************************)
(* The analyze_whale tool (server.py)                                      *)
(***************************************************************************)
MaxEntries == 3

ToolAddresses == AddressSamples

ToolIdle == an.pc = "idle" /\ cmp.pc = "idle" /\ dv.pc = "idle"

AnalyzeTool ==
    /\ ToolIdle
    /\ \E a \in ToolAddresses : an' = BeginAnalysis(a, "tool")
    /\ requests' = 1
    /\ tool_result' = None
    /\ UNCHANGED <<clientVars, sc, dv, chain, cmp>>

\* The handler turns the record, or the error, into its text.
AnalyzeToolReturn ==
    /\ an.pc = "done"
    /\ an.caller = "tool"
    /\ tool_result' = an.outcome
    /\ an' = AnIdle
    /\ UNCHANGED <<clientVars, sc, dv, chain, cmp, requests>>

(***************************************************************************)
(* The compare_whales tool (server.py) and WhaleDetector.compare_whales    *)
(***************************************************************************)
\* addresses.split(',') after strip(): an address, or nothing
Entries == ToolAddresses \cup {Blank}

\* Line 307: [addr.strip() for addr in addresses.split(',') if addr.strip()]
ParseAddresses(entries) == SelectSeq(entries, LAMBDA e : e # Blank)

\* Lines 309 and 312
TooManyLoose(addr_list) == Len(addr_list) > 11
TooMany(addr_list) == Len(addr_list) > 10
TooFew(addr_list) == Len(addr_list) < 2

\* whale_metrics.sort(key=lambda x: x.eth_balance, reverse=True): a stable
\* sort, records of equal balance keep their order.
RECURSIVE InsertDescending(_, _)
InsertDescending(sorted, x) ==
    IF sorted = <<>> THEN <<x>>
    ELSE IF AmountLT(Head(sorted).eth_balance, x.eth_balance)
         THEN <<x>> \o sorted
         ELSE <<Head(sorted)>> \o InsertDescending(Tail(sorted), x)

RECURSIVE SortDescending(_)
SortDescendingSkipped(whale_metrics) == whale_metrics
SortDescending(whale_metrics) ==
    IF whale_metrics = <<>> THEN <<>>
    ELSE InsertDescending(
            SortDescending(SubSeq(whale_metrics, 1, Len(whale_metrics) - 1)),
            whale_metrics[Len(whale_metrics)])

\* Where a loop stands after item i of n: `continue` in the except branch
\* (lines 231-233, 282-283, 323-324, 349-350, 400-401) and the end of the
\* body alike lead to the next item.
AfterItemAbort(i, n, failed) == IF failed THEN n + 1 ELSE i + 1
AfterItem(i, n, failed) == i + 1

CmpIdle == [pc |-> "idle"]

\* The argument strings the tool is called with: every short list, and a
\* list one address over the limit.
CompareInputs ==
    UNION { [1..n -> Entries] : n \in 0..MaxEntries }
    \cup { Rep(11, a) : a \in ToolAddresses }

\* server.py lines 305-317: parse, validate, call compare_whales.
CompareTool ==
    /\ ToolIdle
    /\ \E entries \in CompareInputs :
          LET addr_list == ParseAddresses(entries)
          IN  IF TooMany(addr_list)
              THEN /\ tool_result' = [kind |-> "Error", input |-> addr_list,
                         text |-> "Maximum 10 addresses allowed for comparison"]
                   /\ UNCHANGED cmp
              ELSE IF TooFew(addr_list)
              THEN /\ tool_result' = [kind |-> "Error", input |-> addr_list,
                         text |-> "At least 2 addresses required for comparison"]
                   /\ UNCHANGED cmp
              ELSE /\ tool_result' = None
                   /\ cmp' = [pc |-> "loop", addresses |-> addr_list, i |-> 1,
                              whale_metrics |-> <<>>, tried |-> <<>>]
    /\ requests' = 0
    /\ UNCHANGED <<clientVars, sc, dv, chain, an>>

\* whale_detector.py lines 225-227: the loop calls analyze_whale.
CompareAnalyze ==
    /\ cmp.pc = "loop"
    /\ an.pc = "idle"
    /\ cmp.i <= Len(cmp.addresses)
    /\ an' = BeginAnalysis(cmp.addresses[cmp.i], "compare")
    /\ cmp' = [cmp EXCEPT !.tried = Append(@, cmp.addresses[cmp.i])]
    /\ requests' = requests + 1
    /\ UNCHANGED <<clientVars, sc, dv, chain, tool_result>>

\* Lines 227-233: the record is appended, or the error printed and skipped.
CompareCollect ==
    /\ an.pc = "done"
    /\ an.caller = "compare"
    /\ cmp' = [cmp EXCEPT
                 !.i = AfterItem(@, Len(cmp.addresses),
                                 an.outcome.kind # "metrics"),
                 !.whale_metrics =
                    IF an.outcome.kind = "metrics"
                    THEN Append(@, an.outcome) ELSE @]
    /\ an' = AnIdle
    /\ UNCHANGED <<clientVars, sc, dv, chain, requests, tool_result>>

\* Lines 235-237, then server.py lines 319-320: sort, return, report.
CompareReturn ==
    /\ cmp.pc = "loop"
    /\ an.pc = "idle"
    /\ cmp.i > Len(cmp.addresses)
    /\ LET ranked == SortDescending(cmp.whale_metrics)
       IN  tool_result' =
              IF ranked = <<>>
              THEN [kind |-> "Error", input |-> cmp.addresses,
                    tried |-> cmp.tried,
                    text |-> "Could not analyze any of the provided addresses"]
              ELSE [kind |-> "comparison", input |-> cmp.addresses,
                    tried |-> cmp.tried,
                    analysed |-> cmp.whale_metrics, ranking |-> ranked]
    /\ cmp' = CmpIdle
    /\ UNCHANGED <<clientVars, sc, dv, chain, an, requests>>

(***************************************************************************)
(* What the upstream holds.                                                *)
(***************************************************************************)
Accounts ==
    { \* nothing at all
      [wei |-> Wei(0, 0, "below"), txs |-> <<>>, tokens |-> <<>>],
      \* a large balance that never moved
      [wei |-> Wei(1500, 0, "above"), txs |-> <<>>,
       tokens |-> <<Transfer(Addr("token_a", "lower"))>>],
      \* half a millionth under 10 ETH, one recent large and one old small
      \* transaction, transfers of one token spelt two ways and one without
      \* a contract address
      [wei |-> Wei(9, 999999, "half"),
       txs |-> <<Tx(Eth(500, 0), 0), Tx(Eth(50, 0), 31 * UnitsPerDay)>>,
       tokens |-> <<Transfer(Addr("token_a", "lower")),
                    Transfer(Addr("token_a", "mixed")),
                    TransferWithoutContract>>],
      \* a page holding a record whose value is not a number
      [wei |-> Wei(1500, 0, "below"),
       txs |-> <<Tx(Eth(1, 0), 0), Tx(BadValue, UnitsPerDay)>>,
       tokens |-> <<>>] }

AccountKeys == { a.key : a \in ToolAddresses }

ToolsNext ==
    \/ AnalyzeTool \/ AnalyzeToolReturn
    \/ FetchBalance \/ FetchTransactions \/ FetchTokenTransfers
    \/ CompareTool \/ CompareAnalyze \/ CompareCollect \/ CompareReturn

(***************************************************************************)
(* The discovery operations of WhaleDetector: what they share.             *)
(***************************************************************************)
\* list(self.KNOWN_WHALES.keys()) and list(self.EXCHANGE_ADDRESSES.keys()):
\* a dict lists its keys in the order they were written.
KnownWhaleKeys ==
    << Addr("ethereum_foundation", "lower"), Addr("weth", "lower"),
       Addr("gemini", "lower"), Addr("binance", "lower") >>

ExchangeKeys ==
    << Addr("binance", "lower"), Addr("gemini", "lower"),
       Addr("okex", "lower"), Addr("ftx", "lower") >>

WhaleLabels ==
    [ethereum_foundation |-> "Ethereum Foundation", weth |-> "WETH Contract",
     gemini |-> "Gemini Exchange", binance |-> "Binance Hot Wallet"]

ExchangeNames ==
    [binance |-> "Binance", gemini |-> "Gemini", okex |-> "OKEx", ftx |-> "FTX"]

\* self.KNOWN_WHALES.get(address.lower())
get_whale_label(address) ==
    IF address.key \in DOMAIN WhaleLabels THEN WhaleLabels[address.key] ELSE "None"

\* self.EXCHANGE_ADDRESSES.get(address.lower())
is_exchange_address(address) ==
    IF address.key \in DOMAIN ExchangeNames THEN ExchangeNames[address.key] ELSE "None"

\* A record of a transaction page with the fields the discovery reads.
Transaction(h, f, t, v, ageUnits) ==
    [hash |-> h, from |-> f, to |-> t, value |-> v,
     timeStamp |-> Clock - ageUnits, blockNumber |-> Clock - ageUnits]

\* The upstream answers with data only for the accounts it holds.
Holds(address) == address.key \in DOMAIN chain

\* What a transaction-list request about an address can meet.
PossibleResponses(address) ==
    IF Holds(address) THEN Responses
    ELSE { resp \in Responses : RequestOutcome(resp).kind # "data" }

\* What get_balance(address) gives a caller inside a page or a candidate
\* list: the formatted balance, or an exception. It raises for an account
\* the upstream does not hold, and at any call for one marked "flaky".
PossibleBalances(address) ==
    IF ~Holds(address) THEN { [raised |-> TRUE] }
    ELSE { [raised |-> FALSE, eth_balance |-> b] :
             b \in FormatEth(chain[address.key].wei) }
         \cup (IF chain[address.key].lookups = "flaky"
               THEN { [raised |-> TRUE] } ELSE {})

\* Lines 289-296: the class of the balance, None when anything was raised.
NoClass == "None"
get_whale_class_cached(address) ==
    { IF r.raised THEN NoClass ELSE classify_whale(r.eth_balance) :
        r \in PossibleBalances(address) }

\* `whale_class.value if whale_class else 'unknown'`
ClassValueAsIs(whale_class) == whale_class
ClassValue(whale_class) ==
    IF whale_class = NoClass THEN "unknown" ELSE whale_class

\* `value_eth >= min_eth_value`, `value_eth >= min_amount`,
\* `eth_balance >= min_balance`
ReachesMinimum(amount, minimum) == AmountLE(minimum, amount)

\* list.sort(key=..., reverse=True) on [rank, item] pairs: a stable sort by
\* descending rank.
RECURSIVE InsertRanked(_, _)
InsertRanked(sorted, x) ==
    IF sorted = <<>> THEN <<x>>
    ELSE IF AmountLT(Head(sorted).rank, x.rank)
         THEN <<x>> \o sorted
         ELSE <<Head(sorted)>> \o InsertRanked(Tail(sorted), x)

RECURSIVE SortRanked(_)
SortRanked(pairs) ==
    IF pairs = <<>> THEN <<>>
    ELSE InsertRanked(SortRanked(SubSeq(pairs, 1, Len(pairs) - 1)),
                      pairs[Len(pairs)])

Items(pairs) == [n \in 1..Len(pairs) |-> pairs[n].item]

\* x.sort(key=lambda x: x['value_eth'], reverse=True)
SortByValueSkipped(movements) == movements
SortByValue(movements) ==
    Items(SortRanked([n \in 1..Len(movements) |->
                        [rank |-> movements[n].value_eth, item |-> movements[n]]]))

\* whale_list.sort(key=lambda x: x['eth_balance'], reverse=True)
SortByBalance(whale_list) ==
    Items(SortRanked([n \in 1..Len(whale_list) |->
                        [rank |-> whale_list[n].eth_balance, item |-> whale_list[n]]]))

\* The except branch of a seed's try: on to the next seed, without the pause.
Raise(d) ==
    [d EXCEPT !.pc = "fetch", !.i = AfterItem(@, Len(d.seeds), TRUE)]

\* get_transactions(seed) is awaited: the request is counted and recorded.
Called(d) ==
    [d EXCEPT !.visited = Append(@, d.seeds[d.i]), !.paused = FALSE]

\* asyncio.sleep(0.3) at the end of a seed's body, then the next seed.
Paused(d) ==
    [d EXCEPT !.pc = "fetch", !.i = AfterItem(@, Len(d.seeds), FALSE),
              !.paused = TRUE]

(***************************************************************************)
(* WhaleDetector.discover_whale_movements                                  *)
(***************************************************************************)
MinValueSamples == { Eth(100, 0), Eth(1000000, 0) }

\* Lines 262-275
Movement(tx, from_whale_class, to_whale_class) ==
    [hash |-> tx.hash, from_address |-> tx.from, to_address |-> tx.to,
     value_eth |-> tx.value, timestamp |-> tx.timeStamp,
     block_number |-> tx.blockNumber,
     from_whale_class |-> ClassValue(from_whale_class),
     to_whale_class |-> ClassValue(to_whale_class),
     from_label |-> get_whale_label(tx.from),
     to_label |-> get_whale_label(tx.to),
     from_exchange |-> is_exchange_address(tx.from),
     to_exchange |-> is_exchange_address(tx.to)]

\* Lines 245-250
DiscoverWhaleMovements ==
    /\ ToolIdle
    /\ \E min_eth_value \in MinValueSamples :
          dv' = [op |-> "discover_whale_movements", pc |-> "fetch",
                 minimum |-> min_eth_value,
                 seeds |-> Take(KnownWhaleKeys \o ExchangeKeys, 10), i |-> 1,
                 transactions |-> <<>>, j |-> 1, from_whale_class |-> "unset",
                 whale_movements |-> <<>>,
                 visited |-> <<>>, served |-> <<>>, paused |-> TRUE]
    /\ requests' = 0
    /\ tool_result' = None
    /\ UNCHANGED <<clientVars, sc, chain, an, cmp>>

\* Line 252: the seed's page arrives, or the request raises.
MovementsFetch ==
    /\ dv.op = "discover_whale_movements"
    /\ dv.pc = "fetch"
    /\ dv.i <= Len(dv.seeds)
    /\ \E resp \in PossibleResponses(dv.seeds[dv.i]) :
          IF RequestOutcome(resp).kind # "data"
          THEN dv' = Raise(Called(dv))
          ELSE dv' = [Called(dv) EXCEPT
                        !.pc = "scan",
                        !.transactions = Take(chain[dv.seeds[dv.i].key].txs, 20),
                        !.j = 1,
                        !.served = Append(@, dv.i)]
    /\ requests' = requests + 1
    /\ UNCHANGED <<clientVars, sc, chain, an, cmp, tool_result>>

\* Lines 254-257: the next record of the page.
MovementsScan ==
    /\ dv.op = "discover_whale_movements"
    /\ dv.pc = "scan"
    /\ dv' = IF dv.j > Len(dv.transactions) THEN [dv EXCEPT !.pc = "pause"]
             ELSE IF dv.transactions[dv.j].value = BadValue THEN Raise(dv)
             ELSE IF ReachesMinimum(dv.transactions[dv.j].value, dv.minimum)
                  THEN [dv EXCEPT !.pc = "from"]
                  ELSE [dv EXCEPT !.j = @ + 1]
    /\ UNCHANGED <<clientVars, sc, chain, an, cmp, requests, tool_result>>

\* Line 259
MovementsLookupFrom ==
    /\ dv.op = "discover_whale_movements"
    /\ dv.pc = "from"
    /\ \E c \in get_whale_class_cached(dv.transactions[dv.j].from) :
          dv' = [dv EXCEPT !.pc = "to", !.from_whale_class = c,
                           !.paused = FALSE]
    /\ requests' = requests + 1
    /\ UNCHANGED <<clientVars, sc, chain, an, cmp, tool_result>>

\* Lines 260-277
MovementsLookupTo ==
    /\ dv.op = "discover_whale_movements"
    /\ dv.pc = "to"
    /\ \E c \in get_whale_class_cached(dv.transactions[dv.j].to) :
          dv' = [dv EXCEPT
                   !.pc = "scan",
                   !.j = @ + 1,
                   !.from_whale_class = "unset",
                   !.whale_movements =
                       Append(@, Movement(dv.transactions[dv.j],
                                          dv.from_whale_class, c)),
                   !.paused = FALSE]
    /\ requests' = requests + 1
    /\ UNCHANGED <<clientVars, sc, chain, an, cmp, tool_result>>

\* Line 280
MovementsPause ==
    /\ dv.op = "discover_whale_movements"
    /\ dv.pc = "pause"
    /\ dv' = Paused(dv)
    /\ UNCHANGED <<clientVars, sc, chain, an, cmp, requests, tool_result>>

\* Lines 286-287
MovementsReturn ==
    /\ dv.op = "discover_whale_movements"
    /\ dv.pc = "fetch"
    /\ dv.i > Len(dv.seeds)
    /\ tool_result' =
          [kind |-> "whale_movements", minimum |-> dv.minimum,
           seeds |-> dv.seeds, visited |-> dv.visited, served |-> dv.served,
           kept |-> dv.whale_movements,
           returned |-> Take(SortByValue(dv.whale_movements), 50)]
    /\ dv' = DvIdle
    /\ UNCHANGED <<clientVars, sc, chain, an, cmp, requests>>

(***************************************************************************)
(* WhaleDetector.discover_top_whales                                       *)
(***************************************************************************)
MinBalanceSamples == { Eth(1000, 0), Eth(1000000, 0) }

\* discovered_whales is the list of the dict's values in insertion order;
\* the key of a value is its lower-case form.
\* Line 318: `addr.lower() not in discovered_whales`, negated
DiscoveredAsWritten(discovered_whales, addr) ==
    \E n \in 1..Len(discovered_whales) : discovered_whales[n] = addr
Discovered(discovered_whales, addr) ==
    \E n \in 1..Len(discovered_whales) :
        Lower(discovered_whales[n]) = Lower(addr)

\* Lines 318-319
Remember(discovered_whales, addr) ==
    IF Discovered(discovered_whales, addr) THEN discovered_whales
    ELSE Append(discovered_whales, addr)

\* Lines 336-343
WhaleInfo(address, eth_balance) ==
    [address |-> address, eth_balance |-> eth_balance,
     whale_class |-> classify_whale(eth_balance),
     label |-> get_whale_label(address),
     exchange |-> is_exchange_address(address),
     discovery_method |-> "transaction_analysis"]

\* Lines 303-306
DiscoverTopWhales ==
    /\ ToolIdle
    /\ \E min_balance \in MinBalanceSamples :
          dv' = [op |-> "discover_top_whales", pc |-> "fetch",
                 minimum |-> min_balance,
                 seeds |-> Take(KnownWhaleKeys, 5), i |-> 1,
                 transactions |-> <<>>, j |-> 1,
                 discovered_whales |-> <<>>, addresses |-> <<>>, k |-> 1,
                 whale_list |-> <<>>,
                 visited |-> <<>>, served |-> <<>>, pages |-> <<>>,
                 looked |-> <<>>, paused |-> TRUE]
    /\ requests' = 0
    /\ tool_result' = None
    /\ UNCHANGED <<clientVars, sc, chain, an, cmp>>

\* Line 310: the seed's page arrives, or the request raises.
TopFetch ==
    /\ dv.op = "discover_top_whales"
    /\ dv.pc = "fetch"
    /\ dv.i <= Len(dv.seeds)
    /\ \E resp \in PossibleResponses(dv.seeds[dv.i]) :
          IF RequestOutcome(resp).kind # "data"
          THEN dv' = Raise(Called(dv))
          ELSE dv' = [Called(dv) EXCEPT
                        !.pc = "scan",
                        !.transactions = Take(chain[dv.seeds[dv.i].key].txs, 50),
                        !.j = 1,
                        !.served = Append(@, dv.i),
                        !.pages = Append(@, Take(chain[dv.seeds[dv.i].key].txs, 50))]
    /\ requests' = requests + 1
    /\ UNCHANGED <<clientVars, sc, chain, an, cmp, tool_result>>

\* Lines 313-319: the next record of the page.
TopScan ==
    /\ dv.op = "discover_top_whales"
    /\ dv.pc = "scan"
    /\ dv' = IF dv.j > Len(dv.transactions) THEN [dv EXCEPT !.pc = "pause"]
             ELSE IF dv.transactions[dv.j].value = BadValue THEN Raise(dv)
             ELSE IF AmountGE(dv.transactions[dv.j].value, 50)
                  THEN [dv EXCEPT
                          !.j = @ + 1,
                          !.discovered_whales =
                              Remember(Remember(@, dv.transactions[dv.j].from),
                                       dv.transactions[dv.j].to)]
                  ELSE [dv EXCEPT !.j = @ + 1]
    /\ UNCHANGED <<clientVars, sc, chain, an, cmp, requests, tool_result>>

\* Line 321
TopPause ==
    /\ dv.op = "discover_top_whales"
    /\ dv.pc = "pause"
    /\ dv' = Paused(dv)
    /\ UNCHANGED <<clientVars, sc, chain, an, cmp, requests, tool_result>>

\* Lines 327-328: the first loop is over, the candidates are cut.
TopCandidates ==
    /\ dv.op = "discover_top_whales"
    /\ dv.pc = "fetch"
    /\ dv.i > Len(dv.seeds)
    /\ dv' = [dv EXCEPT !.pc = "balance",
                        !.addresses = Take(dv.discovered_whales, 30),
                        !.k = 1]
    /\ UNCHANGED <<clientVars, sc, chain, an, cmp, requests, tool_result>>

\* Lines 330-345: the candidate's balance arrives, or the request raises.
TopBalance ==
    /\ dv.op = "discover_top_whales"
    /\ dv.pc = "balance"
    /\ dv.k <= Len(dv.addresses)
    /\ \E r \in PossibleBalances(dv.addresses[dv.k]) :
          LET address == dv.addresses[dv.k]
              called == [dv EXCEPT !.looked = Append(@, address),
                                   !.paused = FALSE]
          IN  IF r.raised
              THEN dv' = [called EXCEPT
                            !.k = AfterItem(@, Len(dv.addresses), TRUE)]
              ELSE dv' = [called EXCEPT
                            !.pc = "rest",
                            !.whale_list =
                                IF ReachesMinimum(r.eth_balance, dv.minimum)
                                THEN Append(@, WhaleInfo(address, r.eth_balance))
                                ELSE @]
    /\ requests' = requests + 1
    /\ UNCHANGED <<clientVars, sc, chain, an, cmp, tool_result>>

\* Line 347
TopRest ==
    /\ dv.op = "discover_top_whales"
    /\ dv.pc = "rest"
    /\ dv' = [dv EXCEPT !.pc = "balance",
                        !.k = AfterItem(@, Len(dv.addresses), FALSE),
                        !.paused = TRUE]
    /\ UNCHANGED <<clientVars, sc, chain, an, cmp, requests, tool_result>>

\* Lines 353-354
TopReturn ==
    /\ dv.op = "discover_top_whales"
    /\ dv.pc = "balance"
    /\ dv.k > Len(dv.addresses)
    /\ tool_result' =
          [kind |-> "top_whales", minimum |-> dv.minimum,
           seeds |-> dv.seeds, visited |-> dv.visited, served |-> dv.served,
           pages |-> dv.pages, addresses |-> dv.addresses,
           looked |-> dv.looked, kept |-> dv.whale_list,
           returned |-> Take(SortByBalance(dv.whale_list), 20)]
    /\ dv' = DvIdle
    /\ UNCHANGED <<clientVars, sc, chain, an, cmp, requests>>

(***************************************************************************)
(* WhaleDetector.track_exchange_whales                                     *)
(***************************************************************************)
MinAmountSamples == { Eth(1, 0), Eth(500, 0) }

\* Line 373: `tx['to'].lower() == exchange_addr.lower()`
IsDepositAsWritten(tx, exchange_addr) == tx.to = exchange_addr
IsDeposit(tx, exchange_addr) == Lower(tx.to) = Lower(exchange_addr)

\* Lines 374-378
MovementType(tx, exchange_addr) ==
    IF IsDeposit(tx, exchange_addr) THEN "deposit" ELSE "withdrawal"

WhaleAddress(tx, exchange_addr) ==
    IF IsDeposit(tx, exchange_addr) THEN tx.from ELSE tx.to

\* Lines 383-394
ExchangeMovement(tx, exchange_addr, whale_class) ==
    [hash |-> tx.hash, exchange |-> ExchangeNames[exchange_addr.key],
     exchange_address |-> exchange_addr,
     whale_address |-> WhaleAddress(tx, exchange_addr),
     movement_type |-> MovementType(tx, exchange_addr),
     value_eth |-> tx.value,
     whale_class |-> ClassValue(whale_class),
     whale_label |-> get_whale_label(WhaleAddress(tx, exchange_addr)),
     timestamp |-> tx.timeStamp, block_number |-> tx.blockNumber]

\* Lines 358-363
TrackExchangeWhales ==
    /\ ToolIdle
    /\ \E min_amount \in MinAmountSamples :
          dv' = [op |-> "track_exchange_whales", pc |-> "fetch",
                 minimum |-> min_amount,
                 seeds |-> Take(ExchangeKeys, 5), i |-> 1,
                 transactions |-> <<>>, j |-> 1,
                 exchange_movements |-> <<>>,
                 visited |-> <<>>, served |-> <<>>, paused |-> TRUE]
    /\ requests' = 0
    /\ tool_result' = None
    /\ UNCHANGED <<clientVars, sc, chain, an, cmp>>

\* Lines 365-366
TrackFetch ==
    /\ dv.op = "track_exchange_whales"
    /\ dv.pc = "fetch"
    /\ dv.i <= Len(dv.seeds)
    /\ \E resp \in PossibleResponses(dv.seeds[dv.i]) :
          IF RequestOutcome(resp).kind # "data"
          THEN dv' = Raise(Called(dv))
          ELSE dv' = [Called(dv) EXCEPT
                        !.pc = "scan",
                        !.transactions = Take(chain[dv.seeds[dv.i].key].txs, 30),
                        !.j = 1,
                        !.served = Append(@, dv.i)]
    /\ requests' = requests + 1
    /\ UNCHANGED <<clientVars, sc, chain, an, cmp, tool_result>>

\* Lines 368-378: the next record of the page.
TrackScan ==
    /\ dv.op = "track_exchange_whales"
    /\ dv.pc = "scan"
    /\ dv' = IF dv.j > Len(dv.transactions) THEN [dv EXCEPT !.pc = "pause"]
             ELSE IF dv.transactions[dv.j].value = BadValue THEN Raise(dv)
             ELSE IF ReachesMinimum(dv.transactions[dv.j].value, dv.minimum)
                  THEN [dv EXCEPT !.pc = "whale"]
                  ELSE [dv EXCEPT !.j = @ + 1]
    /\ UNCHANGED <<clientVars, sc, chain, an, cmp, requests, tool_result>>

\* Lines 381-396
TrackLookup ==
    /\ dv.op = "track_exchange_whales"
    /\ dv.pc = "whale"
    /\ \E c \in get_whale_class_cached(
                    WhaleAddress(dv.transactions[dv.j], dv.seeds[dv.i])) :
          dv' = [dv EXCEPT
                   !.pc = "scan",
                   !.j = @ + 1,
                   !.exchange_movements =
                       Append(@, ExchangeMovement(dv.transactions[dv.j],
                                                  dv.seeds[dv.i], c)),
                   !.paused = FALSE]
    /\ requests' = requests + 1
    /\ UNCHANGED <<clientVars, sc, chain, an, cmp, tool_result>>

\* Line 398
TrackPause ==
    /\ dv.op = "track_exchange_whales"
    /\ dv.pc = "pause"
    /\ dv' = Paused(dv)
    /\ UNCHANGED <<clientVars, sc, chain, an, cmp, requests, tool_result>>

\* Lines 404-405
TrackReturn ==
    /\ dv.op = "track_exchange_whales"
    /\ dv.pc = "fetch"
    /\ dv.i > Len(dv.seeds)
    /\ tool_result' =
          [kind |-> "exchange_movements", minimum |-> dv.minimum,
           seeds |-> dv.seeds, visited |-> dv.visited, served |-> dv.served,
           kept |-> dv.exchange_movements,
           returned |-> Take(SortByValue(dv.exchange_movements), 30)]
    /\ dv' = DvIdle
    /\ UNCHANGED <<clientVars, sc, chain, an, cmp, requests>>

DiscoveryNext ==
    \/ DiscoverWhaleMovements \/ MovementsFetch \/ MovementsScan
    \/ MovementsLookupFrom \/ MovementsLookupTo \/ MovementsPause
    \/ MovementsReturn
    \/ DiscoverTopWhales \/ TopFetch \/ TopScan \/ TopPause \/ TopCandidates
    \/ TopBalance \/ TopRest \/ TopReturn
    \/ TrackExchangeWhales \/ TrackFetch \/ TrackScan \/ TrackLookup
    \/ TrackPause \/ TrackReturn

(***************************************************************************)
(* What the upstream holds when the discovery runs.                        *)
(***************************************************************************)
Traders == 40

Account(wei, txs, lookups) ==
    [wei |-> wei, txs |-> txs, tokens |-> <<>>, lookups |-> lookups]

Trader(n, casing) == Addr(ToString(n), casing)

\* A few accounts and short pages: addresses in either casing, a sender the
\* upstream does not hold ("ghost"), a value just under 100 ETH, an exchange
\* sending to itself, a record whose value is not a number in the middle of
\* a page, an exchange the upstream does not hold ("ftx").
QuietWorld ==
    [k \in { "ethereum_foundation", "weth", "gemini", "binance", "okex",
             "stranger", "whale_1" } |->
        CASE k = "ethereum_foundation" ->
                Account(Wei(1500, 0, "exact"),
                    << Transaction(<<"ef", 1>>,
                           Addr("ethereum_foundation", "mixed"),
                           Addr("stranger", "lower"), Eth(150, 0), 0),
                       Transaction(<<"ef", 2>>, Addr("ghost", "lower"),
                           Addr("ethereum_foundation", "lower"), Eth(100, 0), 1),
                       Transaction(<<"ef", 3>>, Addr("stranger", "mixed"),
                           Addr("ethereum_foundation", "lower"),
                           Eth(99, 999999), 2) >>,
                    "steady")
          [] k = "weth" -> Account(Wei(10000, 0, "exact"), <<>>, "steady")
          [] k = "gemini" ->
                Account(Wei(99, 999999, "above"),
                    << Transaction(<<"gemini", 1>>, Addr("gemini", "lower"),
                           Addr("gemini", "mixed"), Eth(600, 0), 0),
                       Transaction(<<"gemini", 2>>, Addr("whale_1", "lower"),
                           Addr("gemini", "mixed"), Eth(700, 0), 1),
                       Transaction(<<"gemini", 3>>, Addr("gemini", "lower"),
                           Addr("ghost", "lower"), Eth(500, 0), 2) >>,
                    "steady")
          [] k = "binance" ->
                Account(Wei(20000, 0, "exact"),
                    << Transaction(<<"binance", 1>>, Addr("binance", "lower"),
                           Addr("stranger", "lower"), Eth(1000, 0), 0),
                       Transaction(<<"binance", 2>>, Addr("whale_1", "lower"),
                           Addr("binance", "lower"), BadValue, 1),
                       Transaction(<<"binance", 3>>, Addr("whale_1", "lower"),
                           Addr("binance", "lower"), Eth(2000, 0), 2) >>,
                    "steady")
          [] k = "okex" ->
                Account(Wei(0, 0, "exact"),
                    << Transaction(<<"okex", 1>>, Addr("okex", "lower"),
                           Addr("whale_1", "lower"), Eth(150, 0), 0) >>,
                    "steady")
          [] k = "stranger" -> Account(Wei(9, 999999, "below"), <<>>, "flaky")
          [] OTHER -> Account(Wei(1000, 0, "exact"), <<>>, "steady")]

\* Many traders and full pages: more kept movements than 50, more collected
\* addresses than 30, more qualifying balances than 20, equal values. The
\* upstream holds no account for binance, okex and ftx.
BusyWorld ==
    [k \in { "ethereum_foundation", "weth", "gemini", "stranger" }
           \cup { ToString(n) : n \in 1..Traders } |->
        CASE k = "ethereum_foundation" ->
                Account(Wei(1500, 0, "exact"),
                    [n \in 1..20 |->
                        Transaction(<<"ef", n>>, Trader(n, "lower"),
                            Addr("ethereum_foundation", "lower"),
                            Eth(100 + n, 0), 0)],
                    "steady")
          [] k = "weth" ->
                Account(Wei(10000, 0, "exact"),
                    [n \in 1..(Traders - 20) |->
                        Transaction(<<"weth", n>>, Trader(20 + n, "lower"),
                            Addr("weth", "lower"), Eth(99 + 2 * n, 0), 1)],
                    "steady")
          [] k = "gemini" ->
                Account(Wei(100, 0, "exact"),
                    [n \in 1..7 |->
                        Transaction(<<"gemini", n>>, Trader(n, "mixed"),
                            Addr("gemini", "lower"), Eth(85 + 10 * n, 0), 2)],
                    "steady")
          [] k = "stranger" -> Account(Wei(0, 0, "exact"), <<>>, "steady")
          [] OTHER ->
                LET n == CHOOSE m \in 1..Traders : ToString(m) = k
                IN  Account(Wei(IF n <= 25 THEN 1000 + 10 * n ELSE 500, 0, "exact"),
                            <<>>, "steady")]

Worlds == { QuietWorld, BusyWorld }

(***************************************************************************)
(* Specifications.                                                         *)
(***************************************************************************)
\* The client alone: the event loop clock has any start, no request yet.
ClientInit ==
    /\ now \in 0..2
    /\ last_request_time = 0
    /\ pc = "idle"
    /\ wake_at = 0
    /\ result = None
    /\ sent_at = Never
    /\ done_at = Never
    /\ ok_at = Never
    /\ flows = NoFlows
    /\ sc = [pc |-> "off"]
    /\ chain = <<>>
    /\ an = AnIdle
    /\ cmp = CmpIdle
    /\ dv = DvIdle
    /\ requests = 0
    /\ tool_result = None

SpecClient == ClientInit /\ [][ClientNext]_vars

\* The pure functions alone, on an address, a balance and a page drawn
\* from the samples.
ScoreInit ==
    /\ now = 0
    /\ last_request_time = 0
    /\ pc = "idle"
    /\ wake_at = 0
    /\ result = None
    /\ sent_at = Never
    /\ done_at = Never
    /\ ok_at = Never
    /\ flows = NoFlows
    /\ \E a \in AddressSamples, b \in BalanceSamples, t \in TxSamples :
          sc = [pc |-> "input", address |-> a, balance |-> b, transactions |-> t,
                whale_class |-> "unset", activity_score |-> Never,
                risk_score |-> Never, prev |-> None]
    /\ chain = <<>>
    /\ an = AnIdle
    /\ cmp = CmpIdle
    /\ dv = DvIdle
    /\ requests = 0
    /\ tool_result = None

SpecScore == ScoreInit /\ [][ScoreNext]_vars

\* get_balance alone, on a wei balance drawn from the samples.
BalanceInit ==
    /\ now = 0
    /\ last_request_time = 0
    /\ pc = "idle"
    /\ wake_at = 0
    /\ result = None
    /\ sent_at = Never
    /\ done_at = Never
    /\ ok_at = Never
    /\ flows = NoFlows
    /\ \E w \in WeiSamples :
          sc = [pc |-> "wei", wei |-> w, eth_balance |-> None, back |-> None,
                whale_class |-> "unset"]
    /\ chain = <<>>
    /\ an = AnIdle
    /\ cmp = CmpIdle
    /\ dv = DvIdle
    /\ requests = 0
    /\ tool_result = None

SpecBalance == BalanceInit /\ [][BalanceNext]_vars

\* The tools, over every assignment of the sample accounts to addresses.
Init ==
    /\ now = 0
    /\ last_request_time = 0
    /\ pc = "idle"
    /\ wake_at = 0
    /\ result = None
    /\ sent_at = Never
    /\ done_at = Never
    /\ ok_at = Never
    /\ flows = NoFlows
    /\ sc = [pc |-> "off"]
    /\ chain \in [AccountKeys -> Accounts]
    /\ an = AnIdle
    /\ cmp = CmpIdle
    /\ dv = DvIdle
    /\ requests = 0
    /\ tool_result = None

Next == ToolsNext

Spec == Init /\ [][Next]_vars

\* The batch operations: compare_whales and the three discovery operations,
\* over the two worlds.
BatchInit ==
    /\ now = 0
    /\ last_request_time = 0
    /\ pc = "idle"
    /\ wake_at = 0
    /\ result = None
    /\ sent_at = Never
    /\ done_at = Never
    /\ ok_at = Never
    /\ flows = NoFlows
    /\ sc = [pc |-> "off"]
    /\ chain \in Worlds
    /\ an = AnIdle
    /\ cmp = CmpIdle
    /\ dv = DvIdle
    /\ requests = 0
    /\ tool_result = None

BatchNext ==
    \/ CompareTool \/ CompareAnalyze \/ CompareCollect \/ CompareReturn
    \/ FetchBalance \/ FetchTransactions \/ FetchTokenTransfers
    \/ DiscoveryNext

SpecBatch == BatchInit /\ [][BatchNext]_vars

\* Two tool invocations on the shared client: the event loop clock has any
\* start, nobody is inside _make_request yet.
ConcurrentInit ==
    /\ now \in 0..2
    /\ last_request_time = 0
    /\ pc = "idle"
    /\ wake_at = 0
    /\ result = None
    /\ sent_at = Never
    /\ done_at = Never
    /\ ok_at = Never
    /\ flows = NoFlows
    /\ sc = [pc |-> "off"]
    /\ chain = <<>>
    /\ an = AnIdle
    /\ cmp = CmpIdle
    /\ dv = DvIdle
    /\ requests = 0
    /\ tool_result = None

SpecConcurrent == ConcurrentInit /\ [][ConcurrentNext]_vars

(***************************************************************************)
(* Properties of the rate-limited client.                                  *)
(***************************************************************************)

\* C1 (as stated): a request is sent no earlier than min_interval after the
\* completion of the last completed request, whatever its outcome.
C1_AfterLastCompleted ==
    (pc = "sending" /\ done_at # Never) => sent_at >= done_at + min_interval

\* C1 (amended): a call is delayed, not rejected: a sleeping call wakes
\* exactly when the interval since the recorded timestamp is satisfied, and
\* a request is sent no earlier than min_interval after the completion of
\* the last exchange that returned a 2xx response with a JSON body.
C1_AfterLastRoundTrip ==
    /\ pc = "sleeping" => wake_at = last_request_time + min_interval
    /\ (pc = "sending" /\ ok_at # Never) => sent_at >= ok_at + min_interval

\* A call that arrived too early, slept, and is sending exactly at the
\* end of the interval.
C1_Witness ==
    /\ pc = "sending"
    /\ ok_at # Never
    /\ sent_at = wake_at
    /\ sent_at = ok_at + min_interval

\* C9 (as stated): the call ends in a transport error (connection error or
\* non-2xx status), in an upstream error (status field "0"), or by returning
\* the JSON object, and in nothing else.
C9_ThreeOutcomes ==
    result # None =>
        /\ result.kind \in {"HTTP error", "Etherscan API error", "data"}
        /\ result.kind = "HTTP error" <=>
                result.http \in {"connect_error", "bad_status"}
        /\ result.kind = "data" => result.cause # "0"

\* C10 (as stated): a call that fails, with a transport failure or with an
\* upstream error, leaves the last-request timestamp unchanged.
C10_FailureKeepsClock ==
    [][ (pc = "sending" /\ pc' = "idle" /\ result'.kind \in {"HTTP error", "Etherscan API error"})
            => last_request_time' = last_request_time ]_vars

(***************************************************************************)
(* Properties of the pure functions.                                       *)
(***************************************************************************)

C3_RiskRange ==
    sc.pc = "scored" =>
        LET txs == sc.transactions
            over == { i \in 1..Len(txs) : ~AmountLE(txs[i].value, Eth(100, 0)) }
            quiet ==
                /\ AmountLE(sc.balance, Eth(1000, 0))
                /\ \A k \in KNOWN_WHALES \cup EXCHANGE_ADDRESSES :
                        k.key # sc.address.key
                /\ 2 * Cardinality(over) <= Len(txs)
                /\ txs # <<>> =>
                        \E i \in 1..Len(txs) :
                            Clock - txs[i].timeStamp >= 30 * UnitsPerDay
        IN  /\ sc.risk_score \in 0..100
            /\ quiet => sc.risk_score = 0

\* All four signals have fired on one input.
C3_Witness ==
    /\ sc.pc = "scored"
    /\ sc.risk_score = 75
    /\ AmountGT(sc.balance, 1000)
    /\ sc.address.key = "ethereum_foundation"

Band(b) ==
    IF b.eth < 10 THEN "shrimp"
    ELSE IF b.eth < 100 THEN "small_whale"
    ELSE IF b.eth < 1000 THEN "medium_whale"
    ELSE IF b.eth < 10000 THEN "large_whale"
    ELSE "mega_whale"

\* C5: for an address whose fetched transaction list is empty, analyze does
\* not fail and returns the record with every count, value and score 0 and
\* both timestamps absent, carrying the fetched balance and its class.
C5_EmptyPage ==
    (an.pc = "done" /\ an.got >= 2 /\ an.transactions = <<>>) =>
        /\ an.failed = None
        /\ an.eth_balance \in FormatEth(chain[an.address.key].wei)
        /\ an.outcome =
              [kind |-> "metrics", address |-> an.address,
               eth_balance |-> an.eth_balance,
               whale_class |-> Band(an.eth_balance),
               total_transactions |-> 0, large_transactions |-> 0,
               avg_transaction_value |-> Zero, max_transaction_value |-> Zero,
               first_seen |-> NoTime, last_activity |-> NoTime,
               activity_score |-> 0, risk_score |-> 0, token_diversity |-> 0]

\* An account above 1000 ETH without transactions has been analysed.
C5_Witness ==
    /\ an.pc = "done"
    /\ an.got = 2
    /\ an.transactions = <<>>
    /\ an.outcome.kind = "metrics"
    /\ AmountGT(an.eth_balance, 1000)

C7_StrictlyDescending ==
    tool_result.kind = "comparison" =>
        \A i \in 1..(Len(tool_result.ranking) - 1) :
            AmountLT(tool_result.ranking[i + 1].eth_balance,
                     tool_result.ranking[i].eth_balance)

\* C7 (amended): the records compare_whales returns are the records of the
\* addresses whose analysis succeeded, in non-increasing order of balance.
C7_Descending ==
    tool_result.kind = "comparison" =>
        LET ranking == tool_result.ranking
            analysed == tool_result.analysed
            Times(s, x) == Cardinality({ i \in 1..Len(s) : s[i] = x })
        IN  /\ \A i \in 1..(Len(ranking) - 1) :
                  AmountLE(ranking[i + 1].eth_balance, ranking[i].eth_balance)
            /\ Len(ranking) = Len(analysed)
            /\ \A i \in 1..Len(analysed) :
                  Times(ranking, analysed[i]) = Times(analysed, analysed[i])

\* A comparison whose records came back in another order than analysed.
C7_Witness ==
    /\ tool_result.kind = "comparison"
    /\ Len(tool_result.ranking) >= 2
    /\ tool_result.ranking # tool_result.analysed
    /\ AmountLT(tool_result.ranking[2].eth_balance,
                tool_result.ranking[1].eth_balance)

\* C8: when a fetch of analyze fails (balance, transactions or token
\* transfers), analyze fails with the error that wraps that failure and
\* returns no record.
C8_FetchFailure ==
    (an.pc = "done" /\ an.failed # None) =>
        /\ an.outcome.kind = "Error analyzing whale"
        /\ an.outcome.cause = an.failed
        /\ an.failed.kind \in {"HTTP error", "Etherscan API error",
                               "ValueError", "AttributeError"}

\* The token transfer fetch failed after everything else was computed.
C8_Witness ==
    /\ an.pc = "done"
    /\ an.got = 2
    /\ an.transactions # <<>>
    /\ an.failed # None
    /\ an.failed.kind = "HTTP error"
    /\ an.outcome.kind = "Error analyzing whale"

(***************************************************************************)
(* Properties of the balance conversion and of the scores.                 *)
(***************************************************************************)
\* The six-decimal neighbours of a wei balance.
Down(w) == Eth(w.eth, w.micro)
Up(w) == RoundUp(w)

\* The read-back value is no more than half of 10^12 wei from w.
WithinHalf(w, back) ==
    \/ back = ReadBack(Down(w)) /\ w.rest \in {"exact", "below", "near_below", "half"}
    \/ back = ReadBack(Up(w)) /\ w.rest \in {"half", "near_above", "above"}

\* The read-back value is less than 10^12 wei from w.
WithinOne(w, back) ==
    \/ back = ReadBack(Down(w))
    \/ back = ReadBack(Up(w)) /\ w.rest # "exact"

\* C17 as stated: converting a wei balance to six-decimal ETH and back
\* gives a value no more than half of 10^12 wei from the original.
C17_WithinHalf ==
    sc.pc = "back" => WithinHalf(sc.wei, sc.back)

\* C17 amended: the round trip gives a value less than 10^12 wei from the
\* original, and no more than half of 10^12 wei from it unless the balance
\* is nearer to a tie than the rounding error of the double quotient.
C17_WithinOne ==
    sc.pc = "back" =>
        /\ WithinOne(sc.wei, sc.back)
        /\ sc.wei.rest \notin {"near_below", "near_above"}
              => WithinHalf(sc.wei, sc.back)

\* 9.9999995 ETH and one wei came back as 9.999999 ETH.
C17_Witness ==
    /\ sc.pc = "back"
    /\ sc.wei = Wei(9, 999999, "near_above")
    /\ sc.back = Wei(9, 999999, "exact")

\* C18 as stated: a transaction raises the activity score exactly when it
\* is among the first 20 entries and at most 30 days old.
C18_ThirtyDays ==
    sc.pc \in {"active", "scored"} =>
        sc.activity_score =
            5 * Cardinality({ i \in 1..Min(20, Len(sc.transactions)) :
                                Clock - sc.transactions[i].timeStamp
                                    <= 30 * UnitsPerDay })

\* C20 as stated: token diversity is the number of distinct contract
\* addresses compared without regard to case, the transfers without a
\* contract address being one more.
C20_CaseInsensitive ==
    (an.pc = "done" /\ an.got = 3) =>
        LET token_transfers == chain[an.address.key].tokens
        IN  an.outcome.token_diversity =
                Cardinality({ Lower(ContractOf(token_transfers[i])) :
                                i \in 1..Len(token_transfers) })

(***************************************************************************)
(* Properties of the batch operations.                                     *)
(***************************************************************************)
DiscoveryKinds == { "whale_movements", "top_whales", "exchange_movements" }

\* The records of a page the loop reaches: those before the first record
\* whose value is not a number.
RECURSIVE Readable(_)
Readable(page) ==
    IF page = <<>> \/ Head(page).value = BadValue THEN <<>>
    ELSE <<Head(page)>> \o Readable(Tail(page))

Range(s) == { s[n] : n \in 1..Len(s) }

\* The page a discovery result was given for its seed number n.
PageOf(res, n, offset) == Take(chain[res.seeds[n].key].txs, offset)

\* C11: in compare_whales, discover_whale_movements, discover_top_whales and
\* track_exchange_whales a failure on one item never ends the operation:
\* the operation returns, and it has by then gone through every address it
\* was given, every seed and every candidate, in order.
C11_NeverAborts ==
    /\ "tried" \in DOMAIN tool_result => tool_result.tried = tool_result.input
    /\ tool_result.kind \in DiscoveryKinds
          => tool_result.visited = tool_result.seeds
    /\ tool_result.kind = "top_whales"
          => tool_result.looked = tool_result.addresses

\* discover_whale_movements returned movements of later seeds although the
\* request for its first seed had failed.
C11_Witness ==
    /\ tool_result.kind = "whale_movements"
    /\ 1 \notin Range(tool_result.served)
    /\ Len(tool_result.served) >= 2
    /\ tool_result.returned # <<>>

\* C12: in discover_whale_movements and track_exchange_whales a party whose
\* balance lookup fails is reported with the class "unknown", the other
\* party keeps its own class, and the movement is kept all the same: every
\* readable record of a fetched page that reaches the minimum is in the
\* result, and every seed was gone through.
C12_UnknownClass ==
    /\ tool_result.kind = "whale_movements" =>
          /\ \A m \in Range(tool_result.kept) :
                /\ ~Holds(m.from_address) => m.from_whale_class = "unknown"
                /\ ~Holds(m.to_address) => m.to_whale_class = "unknown"
                /\ (Holds(m.from_address)
                        /\ chain[m.from_address.key].lookups = "steady")
                      => m.from_whale_class \in
                            { classify_whale(b) :
                                b \in FormatEth(chain[m.from_address.key].wei) }
                /\ (Holds(m.to_address)
                        /\ chain[m.to_address.key].lookups = "steady")
                      => m.to_whale_class \in
                            { classify_whale(b) :
                                b \in FormatEth(chain[m.to_address.key].wei) }
          /\ \A n \in Range(tool_result.served) :
                \A tx \in Range(Readable(PageOf(tool_result, n, 20))) :
                    AmountLE(tool_result.minimum, tx.value)
                        => \E m \in Range(tool_result.kept) : m.hash = tx.hash
          /\ tool_result.visited = tool_result.seeds
    /\ tool_result.kind = "exchange_movements" =>
          /\ \A m \in Range(tool_result.kept) :
                /\ ~Holds(m.whale_address) => m.whale_class = "unknown"
                /\ (Holds(m.whale_address)
                        /\ chain[m.whale_address.key].lookups = "steady")
                      => m.whale_class \in
                            { classify_whale(b) :
                                b \in FormatEth(chain[m.whale_address.key].wei) }
          /\ \A n \in Range(tool_result.served) :
                \A tx \in Range(Readable(PageOf(tool_result, n, 30))) :
                    AmountLE(tool_result.minimum, tx.value)
                        => \E m \in Range(tool_result.kept) : m.hash = tx.hash
          /\ tool_result.visited = tool_result.seeds

\* A movement whose sender could not be looked up and whose receiver could
\* is in the result, followed by movements of later seeds.
C12_Witness ==
    /\ tool_result.kind = "whale_movements"
    /\ \E n \in 1..Len(tool_result.kept) :
          /\ tool_result.kept[n].from_address.key = "ghost"
          /\ tool_result.kept[n].from_whale_class = "unknown"
          /\ tool_result.kept[n].to_whale_class = "large_whale"
          /\ n < Len(tool_result.kept)

\* How many of the movements have a value of at least v.
CountReaching(movements, v) ==
    Cardinality({ n \in 1..Len(movements) : AmountLE(v, movements[n].value_eth) })

\* C13: discover_whale_movements returns at most 50 movements, each of a
\* value of at least the minimum, in non-increasing order of value, and
\* they are the highest-valued of all the movements kept; when no
\* transaction reaches the minimum it returns the empty list.
C13_TopFifty ==
    tool_result.kind = "whale_movements" =>
        LET returned == tool_result.returned
            kept == tool_result.kept
        IN  /\ Len(returned) <= 50
            /\ Len(returned) = Min(50, Len(kept))
            /\ \A n \in 1..Len(returned) :
                  /\ AmountLE(tool_result.minimum, returned[n].value_eth)
                  /\ returned[n] \in Range(kept)
                  /\ n > 1 => AmountLE(returned[n].value_eth,
                                       returned[n - 1].value_eth)
            /\ \A m \in Range(kept) :
                  CountReaching(returned, m.value_eth)
                      = Min(50, CountReaching(kept, m.value_eth))
            /\ (\A n \in Range(tool_result.served) :
                  \A tx \in Range(Readable(PageOf(tool_result, n, 20))) :
                      ~AmountLE(tool_result.minimum, tx.value))
                  => returned = <<>>

\* More than 50 movements were kept and 50 returned, equal values among
\* them.
C13_Witness ==
    /\ tool_result.kind = "whale_movements"
    /\ Len(tool_result.kept) > 50
    /\ Len(tool_result.returned) = 50
    /\ \E n \in 2..50 :
          tool_result.returned[n].value_eth = tool_result.returned[n - 1].value_eth

\* The addresses named by the readable records of at least 50 ETH of the
\* pages, in the order the records name them.
RECURSIVE Mentions(_)
Mentions(page) ==
    IF page = <<>> \/ Head(page).value = BadValue THEN <<>>
    ELSE (IF AmountGE(Head(page).value, 50)
          THEN <<Head(page).from, Head(page).to>> ELSE <<>>)
         \o Mentions(Tail(page))

RECURSIVE AllMentions(_)
AllMentions(pages) ==
    IF pages = <<>> THEN <<>>
    ELSE Mentions(Head(pages)) \o AllMentions(Tail(pages))

\* The places in a list of mentions where an address is named for the first
\* time, whatever its casing.
FirstMentions(mentions) ==
    { n \in 1..Len(mentions) :
        \A m \in 1..(n - 1) : Lower(mentions[m]) # Lower(mentions[n]) }

\* The first 30 addresses collected, each as it was first written.
FirstThirty(mentions) ==
    LET firsts == FirstMentions(mentions)
    IN  { mentions[n] : n \in
            { f \in firsts : Cardinality({ e \in firsts : e <= f }) <= 30 } }

\* C14: discover_top_whales returns at most 20 entries in non-increasing
\* order of balance, each of a balance of at least the minimum, no two with
\* addresses equal without regard to case, and each address is one of the
\* first 30 collected from the seed transactions of at least 50 ETH, in
\* first-seen order and casing.
C14_TopTwenty ==
    tool_result.kind = "top_whales" =>
        LET returned == tool_result.returned
        IN  /\ Len(returned) <= 20
            /\ \A n \in 1..Len(returned) :
                  /\ AmountLE(tool_result.minimum, returned[n].eth_balance)
                  /\ n > 1 => AmountLE(returned[n].eth_balance,
                                       returned[n - 1].eth_balance)
                  /\ returned[n].address
                        \in FirstThirty(AllMentions(tool_result.pages))
                  /\ \A m \in 1..Len(returned) :
                        m # n => Lower(returned[m].address)
                                    # Lower(returned[n].address)

\* 30 candidates were cut from more collected addresses, more than 20 of
\* them held the minimum, 20 were returned.
C14_Witness ==
    /\ tool_result.kind = "top_whales"
    /\ Len(tool_result.addresses) = 30
    /\ Cardinality(FirstMentions(AllMentions(tool_result.pages))) > 30
    /\ Len(tool_result.kept) > 20
    /\ Len(tool_result.returned) = 20

\* The record of the exchange's page a movement was made from.
TxOf(m) ==
    CHOOSE tx \in Range(chain[m.exchange_address.key].txs) : tx.hash = m.hash

\* C15 as stated: a movement is a "deposit" exactly when the receiver is the
\* scanned exchange address, compared without regard to case, a
\* "withdrawal" otherwise, and the whale address is the party that is not
\* the exchange address.
C15_Counterparty ==
    tool_result.kind = "exchange_movements" =>
        \A m \in Range(tool_result.kept) :
            /\ m.movement_type = "deposit"
                  <=> Lower(TxOf(m).to) = Lower(m.exchange_address)
            /\ m.movement_type \in {"deposit", "withdrawal"}
            /\ m.whale_address \in {TxOf(m).from, TxOf(m).to}
            /\ Lower(m.whale_address) # Lower(m.exchange_address)

\* C15 amended: a movement is a "deposit" exactly when the receiver is the
\* scanned exchange address, compared without regard to case, a
\* "withdrawal" otherwise; the whale address is the sender of a deposit and
\* the receiver of a withdrawal, which is the party that is not the exchange
\* address unless the exchange is both sender and receiver.
C15_SenderOrReceiver ==
    tool_result.kind = "exchange_movements" =>
        \A m \in Range(tool_result.kept) :
            /\ m.movement_type = "deposit"
                  <=> Lower(TxOf(m).to) = Lower(m.exchange_address)
            /\ m.movement_type \in {"deposit", "withdrawal"}
            /\ m.whale_address =
                  IF m.movement_type = "deposit" THEN TxOf(m).from
                  ELSE TxOf(m).to
            /\ Lower(TxOf(m).from) # Lower(TxOf(m).to)
                  => Lower(m.whale_address) # Lower(m.exchange_address)

\* The result holds the exchange's transfer to itself, reported as a deposit
\* of the exchange, a deposit whose receiver was written in mixed case, and
\* a withdrawal.
C15_Witness ==
    /\ tool_result.kind = "exchange_movements"
    /\ \E m \in Range(tool_result.kept) :
          /\ m.movement_type = "deposit"
          /\ Lower(m.whale_address) = Lower(m.exchange_address)
    /\ \E m \in Range(tool_result.kept) :
          /\ m.movement_type = "deposit"
          /\ TxOf(m).to.casing = "mixed"
          /\ m.whale_address.key = "whale_1"
    /\ \E m \in Range(tool_result.kept) :
          /\ m.movement_type = "withdrawal"
          /\ m.whale_address.key = "ghost"

\* C16 as stated: in a discovery operation every upstream call after the
\* first is issued only after a pause that followed the call before it.
C16_PauseBetweenCalls ==
    [][(dv.pc # "idle" /\ requests > 0 /\ requests' = requests + 1)
          => dv.paused]_vars

\* C19 as stated: discover_whale_movements fetches the transaction list of
\* each distinct registry address at most once, and makes at most 10 such
\* fetches.
C19_UnionOfRegistries ==
    tool_result.kind = "whale_movements" =>
        /\ Len(tool_result.visited) <= 10
        /\ Range(tool_result.visited) \subseteq KNOWN_WHALES \cup EXCHANGE_ADDRESSES
        /\ \A n, m \in 1..Len(tool_result.visited) :
              n # m => tool_result.visited[n] # tool_result.visited[m]

\* The seeds of a discovery result whose page was fetched and read to its
\* end.
WholeSeeds(res, offset) ==
    { n \in Range(res.served) :
        Readable(PageOf(res, n, offset)) = PageOf(res, n, offset) }

\* C23 as stated: in discover_whale_movements and track_exchange_whales a
\* seed whose processing failed at any point, at the fetch or at a malformed
\* record part-way through its page, contributes no movement to the result:
\* every returned movement comes from a seed processed to its end.
C23_AllOrNothing ==
    /\ tool_result.kind = "whale_movements" =>
          \A m \in Range(tool_result.returned) :
              \E n \in WholeSeeds(tool_result, 20) :
                  \E tx \in Range(PageOf(tool_result, n, 20)) : tx.hash = m.hash
    /\ tool_result.kind = "exchange_movements" =>
          \A m \in Range(tool_result.returned) :
              \E n \in WholeSeeds(tool_result, 30) :
                  \E tx \in Range(PageOf(tool_result, n, 30)) : tx.hash = m.hash

(***************************************************************************)
(* Properties of the class taken from a wei balance.                       *)
(***************************************************************************)
\* classify applied to the exact value w / 10^18: the bands begin at whole
\* numbers of ETH, so the whole ETH of w decide.
ExactClass(w) == classify_whale(Eth(w.eth, 0))

Apart(t, u) == t - u >= min_interval \/ u - t >= min_interval

\* C21 as stated: whenever two tool invocations are inside the request
\* operation of the shared client at once and both have sent their HTTP
\* request, the two requests were sent at least min_interval apart.
C21_Serialized ==
    \A c \in Callers, d \in Callers :
        /\ c # d
        /\ flows[c].pc = "sending"
        /\ flows[d].pc = "sending"
        => Apart(flows[c].sent_at, flows[d].sent_at)

====
